---- MODULE Spec2Model ----
(***************************************************************************)
(* aws-tag-report: discovery of the resources of the CloudFormation stacks *)
(* whose name contains a search term (aws.go), and the report loop of main *)
(* (main.go) writing one csv row per discovered resource (Report).         *)
(*                                                                         *)
(* Strings that the code inspects (stack names, search terms, product ids) *)
(* are sequences of one-character strings, so that strings.Contains is the *)
(* real substring test.  Resource types are the sequence of their          *)
(* "::"-separated segments.  A *string is a sequence of length <= 1.       *)
(***************************************************************************)
EXTENDS Integers, Sequences, FiniteSets, TLC

VARIABLES
    args,        \* os.Args[1:], the positional arguments of the command line
    account,     \* which state of the provider's account the run looks at
    remote,      \* the result records a remote tag operation may answer with
    search,      \* the search term main uses
    pc,          \* position of main: "discover", "loop", "done", "aborted"
    frames,      \* call stack of getStackResources, innermost frame last
    resources,   \* the slice main ranges over (result of getStackResources)
    r,           \* index of the range loop of main (0-based, as in Go)
    buf,         \* rows held by the csv.Writer, not yet flushed
    out,         \* rows flushed to os.Stdout
    lookupCalls, \* history: the loop indices whose lookup function was called
    lastLookup,  \* history: <<>>, or the last lookup call: <<[at, res]>>
    pageLog,     \* history: the pages received by the page loop in progress
    panicked     \* "" while running, else the cause of the panic that ended the run

vars == <<args, account, remote, search, pc, frames, resources, r, buf, out, lookupCalls, lastLookup, pageLog, panicked>>

\* ------------------------------------------------------------------ bounds

\* largest number of items the provider puts in one page
MaxPageSize == 2
\* deepest nesting of getStackResources calls that is explored
MaxDepth == 3

\* ----------------------------------------------------------------- strings

Min(a, b) == IF a < b THEN a ELSE b

RECURSIVE Flatten(_)
Flatten(ss) == IF ss = <<>> THEN <<>> ELSE Head(ss) \o Flatten(Tail(ss))

Count(s, x) == Cardinality({i \in 1..Len(s) : s[i] = x})

\* strings.Contains(s, sub)
Contains(s, sub) ==
    \E i \in 0..(Len(s) - Len(sub)) : SubSeq(s, i + 1, i + Len(sub)) = sub

ResourceTypeCustomResource == "Custom"

\* faulty variant: the "Custom::" test is left out
customResourceNever(resourceType) == FALSE

\* strings.HasPrefix on a resource type, the prefix being "Custom::":
\* the first segment is "Custom" and a "::" follows it
customResource(resourceType) ==
    /\ Len(resourceType) >= 2
    /\ resourceType[1] = ResourceTypeCustomResource

ResourceTypeCloudFormationProduct == <<"AWS", "ServiceCatalog", "CloudFormationProduct">>

\* --------------------------------------------------------------- registry

\* lookups built with wrap(...)
WrapTypes == {
    <<"AWS", "Lambda", "Function">>,
    <<"AWS", "SSM", "Parameter">>,
    <<"AWS", "ServiceCatalog", "CloudFormationProduct">>,
    <<"AWS", "ServiceCatalog", "Portfolio">>,
    <<"AWS", "S3", "Bucket">>,
    <<"AWS", "IAM", "Role">>,
    <<"AWS", "SNS", "Topic">>,
    <<"AWS", "EC2", "LaunchTemplate">>,
    <<"AWS", "EC2", "RouteTable">>,
    <<"AWS", "EC2", "SecurityGroup">>,
    <<"AWS", "EC2", "Subnet">>,
    <<"AWS", "EC2", "VPC">>,
    <<"AWS", "Glue", "Crawler">>,
    <<"AWS", "Glue", "Job">>,
    <<"AWS", "Glue", "Trigger">>,
    <<"AWS", "DynamoDB", "Table">>,
    <<"AWS", "KinesisFirehose", "DeliveryStream">>,
    <<"AWS", "Logs", "LogGroup">>,
    <<"AWS", "Cloudwatch", "Alarm">>,
    <<"AWS", "Events", "Rule">>,
    <<"AWS", "Config", "ConfigRule">>,
    <<"AWS", "KMS", "Key">> }

\* lookups built with nop(...)
NopTypes == {
    <<"AWS", "Lambda", "Permission">>,
    <<"AWS", "ServiceCatalog", "LaunchRoleConstraint">>,
    <<"AWS", "ServiceCatalog", "PortfolioPrincipalAssociation">>,
    <<"AWS", "ServiceCatalog", "PortfolioProductAssociation">>,
    <<"AWS", "ServiceCatalog", "TagOptionAssociation">>,
    <<"AWS", "ServiceCatalog", "TagOption">>,
    <<"AWS", "S3", "BucketPolicy">>,
    <<"AWS", "IAM", "InstanceProfile">>,
    <<"AWS", "IAM", "Policy">>,
    <<"AWS", "SNS", "Subscription">>,
    <<"AWS", "SNS", "TopicPolicy">>,
    <<"AWS", "EC2", "VPCEndpoint">>,
    <<"AWS", "EC2", "SubnetRouteTableAssociation">>,
    <<"AWS", "EC2", "SecurityGroupIngress">>,
    <<"AWS", "Glue", "Database">>,
    <<"AWS", "Glue", "SecurityConfiguration">>,
    <<"AWS", "Batch", "JobDefinition">>,
    <<"AWS", "Batch", "JobQueue">>,
    <<"AWS", "Batch", "ComputeEnvironment">>,
    <<"AWS", "Logs", "LogStream">>,
    <<"AWS", "CloudFormation", "Macro">> }

\* the keys of the lookups map
lookups == WrapTypes \cup NopTypes

\* ------------------------------------------------------- lookup outcomes

ErrCodeResourceNotFoundException == "ResourceNotFoundException"
ErrCodeEntityNotFoundException == "EntityNotFoundException"

\* An error value: kind "aws" is an awserr.Error with its Code(), kind
\* "unsupported" a *TagsNotSupportedError, kind "other" any other error
\* (wrap's fmt.Errorf on a response it cannot read).
AwsError(code) == [kind |-> "aws", code |-> code]
TagsNotSupportedError == [kind |-> "unsupported", code |-> ""]
OtherError == [kind |-> "other", code |-> ""]

\* a nil map[string]string
NilTags == [k \in {} |-> ""]

\* tag maps a remote tag lookup can return
TagSets == {
    [k \in {"Name", "BU", "rlg:product"} |-> "v"],
    [k \in {"owner"} |-> "teamA"] }

\* nop(resourceType): always fails with a *TagsNotSupportedError
nop(resourceType) == {[ok |-> FALSE, tags |-> NilTags, err |-> TagsNotSupportedError]}

\* The result record of a remote tag operation, once unwrapped, is the
\* sequence of its fields in the order the record type declares them.  A
\* field has a name and a value of kind "map" (a map[string]string, in
\* tags), "slice" (a slice of records with Key and Value, in items) or
\* "other".
MapField(name, tags) == [name |-> name, kind |-> "map", tags |-> tags, items |-> <<>>]
SliceField(name, items) == [name |-> name, kind |-> "slice", tags |-> NilTags, items |-> items]
OtherField(name) == [name |-> name, kind |-> "other", tags |-> NilTags, items |-> <<>>]
Tag(key, value) == [Key |-> key, Value |-> value]

\* the names wrap takes for the tags field
TagsFieldNames == <<"Tags", "TagSet", "TagList">>

containsString(col, want) == \E i \in 1..Len(col) : col[i] = want

\* outValue.FieldByName(name): the field, or the zero Value when there is none
FieldByName(outValue, name) ==
    IF \E i \in 1..Len(outValue) : outValue[i].name = name
    THEN outValue[CHOOSE i \in 1..Len(outValue) : outValue[i].name = name]
    ELSE [name |-> name, kind |-> "invalid", tags |-> NilTags, items |-> <<>>]

\* tags[key] = value for each item in turn: the last value of a key stays
FoldTags(items) ==
    [k \in {items[i].Key : i \in 1..Len(items)} |->
        items[CHOOSE i \in 1..Len(items) :
                /\ items[i].Key = k
                /\ \A j \in (i + 1)..Len(items) : items[j].Key # k].Value]

\* the errors wrap makes itself
CastError == [kind |-> "other", code |-> "unable to cast"]
NoTagsFieldError == [kind |-> "other", code |-> "tags field not found"]

Success(tags) == [ok |-> TRUE, tags |-> tags, err |-> OtherError]
Failure(err) == [ok |-> FALSE, tags |-> NilTags, err |-> err]

\* the tags of the field wrap has stopped at, when it is no map: the loop
\* over the three names folds the slice of the name that is the field's
FoldField(outValue, field) ==
    LET matched == SelectSeq(TagsFieldNames,
                       LAMBDA tagsField :
                           /\ tagsField = field.name
                           /\ FieldByName(outValue, tagsField).kind = "slice")
    IN  IF matched = <<>> THEN NilTags
        ELSE FoldTags(FieldByName(outValue, matched[1]).items)

\* the loop of wrap over the fields of the result record, from field i on
RECURSIVE wrapScan(_, _)
wrapScan(outValue, i) ==
    IF i > Len(outValue) THEN Failure(NoTagsFieldError)
    ELSE IF containsString(TagsFieldNames, outValue[i].name)
    THEN IF FieldByName(outValue, outValue[i].name).kind = "map"
         THEN Success(FieldByName(outValue, outValue[i].name).tags)
         ELSE IF Cardinality(DOMAIN FoldField(outValue, outValue[i])) > 0
         THEN Success(FoldField(outValue, outValue[i]))
         ELSE Failure(CastError)
    ELSE wrapScan(outValue, i + 1)

\* faulty variant: the names are tried in their own order, Tags first,
\* whatever the order of the fields in the record
wrapExtractByName(outValue) ==
    LET present == SelectSeq(TagsFieldNames,
                       LAMBDA n : \E i \in 1..Len(outValue) : outValue[i].name = n)
    IN  IF present = <<>> THEN Failure(NoTagsFieldError)
        ELSE wrapScan(<<FieldByName(outValue, present[1])>>, 1)

\* what wrap makes of the result record of the remote operation
wrapExtract(outValue) == wrapScan(outValue, 1)

\* the result records the remote tag operations answer with in a run of
\* the whole program
RemoteAnswers ==
    {<<MapField("Tags", t)>> : t \in TagSets}
    \cup {<<OtherField("NextToken"), SliceField("TagList", <<Tag("owner", "teamA")>>)>>,
          <<SliceField("TagSet", <<>>)>>}

\* wrap(...): the results the returned function can give: the error of the
\* remote operation, or what it makes of the result record
wrap(resourceType, answers) ==
    {wrapExtract(a) : a \in answers}
    \cup {Failure(e) :
            e \in {AwsError(ErrCodeResourceNotFoundException),
                   AwsError(ErrCodeEntityNotFoundException),
                   AwsError("AccessDeniedException"),
                   OtherError}}

\* lookup(ctx, cfg, id) for a type of the registry
lookup(resourceType, answers) ==
    IF resourceType \in WrapTypes THEN wrap(resourceType, answers) ELSE nop(resourceType)

\* errors.As(err, &ae) && (code is one of the two not-found codes)
IsNotFound(err) ==
    /\ err.kind = "aws"
    /\ err.code \in {ErrCodeResourceNotFoundException, ErrCodeEntityNotFoundException}

\* err.(*TagsNotSupportedError)
IsTagsNotSupported(err) == err.kind = "unsupported"

\* ----------------------------------------------------------------- report

\* (each column is written the way the rows below write that column: a text
\* that is a list of parts as a sequence, a plain text as a string)
header == << <<"Project">>, <<"Type">>, "Resource Name", <<"Tags">>, <<"Missing Tags">>,
             "Created By", <<"Classic Coverage">>, <<"Modern Coverage">> >>
classic == <<"Name", "BU", "Product", "Repository", "TeamID", "Environment">>
modern == <<"Name", "rlg:business-unit", "rlg:product", "rlg:application", "rlg:repository",
            "rlg:techdata-team", "rlg:contact", "rlg:environment", "rlg:classification",
            "rlg:compliance">>

\* fmt.Sprintf("%d%%", n), and the literal "N/A"
Percent(n) == <<n, "%">>
NotApplicable == <<"N/A">>

\* the third "::"-separated segment when there are more than two, else the
\* whole type
extractType(resourceType) ==
    IF Len(resourceType) > 2 THEN <<resourceType[3]>> ELSE resourceType

extractOrigin(stack, srch) ==
    IF Contains(stack, srch) THEN "PIPELINE" ELSE "CUSTOM"

\* faulty variant: every required key is listed as missing
extractKeysAllMissing(sample, required) ==
    << SelectSeq(required, LAMBDA key : key \in DOMAIN sample), required >>

\* <<has, miss>>: the required keys the sample has, and those it misses
extractKeys(sample, required) ==
    << SelectSeq(required, LAMBDA key : key \in DOMAIN sample),
       SelectSeq(required, LAMBDA key : key \notin DOMAIN sample) >>

\* the row Report.Add writes (strings.Join(keys, ",") is kept as the list
\* of the keys it joins: no key holds a comma)
Add(resourceType, name, stack, srch, tags) ==
    LET hasModern == extractKeys(tags, modern)[1]
        missModern == extractKeys(tags, modern)[2]
        hasClassic == extractKeys(tags, classic)[1]
    IN << srch, extractType(resourceType), name, hasModern, missModern,
          extractOrigin(stack, srch),
          Percent((100 * Len(hasClassic)) \div Len(classic)),
          Percent((100 * Len(hasModern)) \div Len(modern)) >>

\* the row Report.NotSupported writes (main calls it AddNotSupported)
NotSupported(resourceType, name, stack, srch) ==
    << srch, extractType(resourceType), name, <<>>, <<>>,
       extractOrigin(stack, srch), NotApplicable, NotApplicable >>

\* --------------------------------------------------------------- provider
\* The account the run looks at.  Stacks "p1" and "q1" are the stacks of
\* the provisioned products "p" and "q"; product "P1" is provisioned once,
\* product "P2" twice.

StackResource(type, id, stack) ==
    [ResourceType |-> type, PhysicalResourceId |-> id, StackName |-> stack]

\* every stack in state CREATE_COMPLETE or UPDATE_COMPLETE, in listing order
PlainStacks == <<
    [StackName |-> <<"a", "b">>],
    [StackName |-> <<"a", "c">>],
    [StackName |-> <<"p", "1">>],
    [StackName |-> <<"q", "1">>],
    [StackName |-> <<"x", "b">>] >>

\* two more stacks, of the account in which each is provisioned from a
\* product of the other: "ky" holds the product "P3", whose provisioned
\* product "w" names the stack "wz", which holds the product "P4", whose
\* provisioned product "k" names the stack "ky"
CyclicStacks == <<
    [StackName |-> <<"k", "y">>],
    [StackName |-> <<"w", "z">>] >>

\* the listing of the account the run looks at
AllStacks == IF account = "cyclic" THEN PlainStacks \o CyclicStacks ELSE PlainStacks

\* the resources of a stack, as the pages the provider holds them in
StackResourcePages(stackName) ==
    CASE stackName = <<"a", "b">> ->
           << << StackResource(<<"AWS", "Lambda", "Function">>, "f1", stackName),
                 StackResource(ResourceTypeCloudFormationProduct, "P1", stackName),
                 StackResource(<<"AWS", "S3", "Bucket">>, "b1", stackName) >> >>
      [] stackName = <<"a", "c">> ->
           << << StackResource(ResourceTypeCloudFormationProduct, "P1", stackName) >> >>
      [] stackName = <<"p", "1">> ->
           << << StackResource(<<"AWS", "Lambda", "Permission">>, "m1", stackName),
                 StackResource(<<"AWS", "Glue", "Job">>, "j1", stackName),
                 StackResource(<<"AWS", "IAM", "Policy">>, "y1", stackName) >> >>
      [] stackName = <<"q", "1">> ->
           << << StackResource(<<"AWS", "Config", "ConfigRule">>, "r1", stackName) >>,
              << StackResource(<<"AWS", "SNS", "Topic">>, "t1", stackName) >> >>
      [] stackName = <<"x", "b">> ->
           << << StackResource(<<"Custom", "Thing">>, "c1", stackName),
                 StackResource(<<"AWS", "Lambda", "Function">>, "f2", stackName),
                 StackResource(ResourceTypeCloudFormationProduct, "P2", stackName),
                 StackResource(<<"AWS", "Foo", "Bar">>, "u1", stackName),
                 StackResource(<<"AWS", "S3", "Bucket">>, "b2", stackName) >> >>
      [] stackName = <<"k", "y">> ->
           << << StackResource(<<"AWS", "Lambda", "Function">>, "g1", stackName),
                 StackResource(ResourceTypeCloudFormationProduct, "P3", stackName) >> >>
      [] stackName = <<"w", "z">> ->
           << << StackResource(ResourceTypeCloudFormationProduct, "P4", stackName) >> >>
      [] OTHER -> << <<>> >>

\* the provisioned products the search query id selects, in listing order
ProvisionedProducts(id) ==
    CASE id = "P1" -> << [Id |-> <<"p">>] >>
      [] id = "P2" -> << [Id |-> <<"p">>], [Id |-> <<"q">>] >>
      [] id = "P3" -> << [Id |-> <<"w">>] >>
      [] id = "P4" -> << [Id |-> <<"k">>] >>
      [] OTHER -> <<>>

\* the command lines tried: os.Args[1]
Searches == { <<>>, <<"a">>, <<"b">>, <<"c">>, <<"x">>, <<"1">>, <<"a", "b">>, <<"z">> }

\* The responses the provider can give to a request for the listing `all`
\* carrying `token`: the next 1..MaxPageSize items and the token of the
\* rest.  The token is absent with the last items, or with an empty page
\* that follows them.
Responses(all, token) ==
    LET c == IF token = <<>> THEN 0 ELSE token[1]
        rem == Len(all) - c
    IN  IF rem = 0
        THEN {[items |-> <<>>, next |-> <<>>]}
        ELSE UNION { IF k < rem
                     THEN {[items |-> SubSeq(all, c + 1, c + k), next |-> <<c + k>>]}
                     ELSE {[items |-> SubSeq(all, c + 1, c + k), next |-> <<>>],
                           [items |-> SubSeq(all, c + 1, c + k), next |-> <<c + k>>]}
                   : k \in 1..Min(rem, MaxPageSize) }

\* ------------------------------------------------------ getStackResources
\* One frame per call of getStackResources in progress.  phase is the place
\* the call has reached:
\*   "listStacks"      in the page loop of listStacks, about to send
\*   "listed"          listStacks has returned
\*   "resources"       ranging over the resources of stack number si
\*   "searchProducts"  in the page loop of searchProvisionedProducts
\*   "searched"        searchProvisionedProducts has returned
\*   "products"        ranging over the provisioned products
\* token is the page token of the page loop in progress, si, ri and pi count
\* the stacks, resources and products already taken by the range loops.

NewFrame(srch) ==
    [search |-> srch, phase |-> "listStacks", token |-> <<>>,
     stacks |-> <<>>, si |-> 0, res |-> <<>>, ri |-> 0,
     prods |-> <<>>, pi |-> 0, acc |-> <<>>]

Top == frames[Len(frames)]
SetTop(f) == [frames EXCEPT ![Len(frames)] = f]

\* faulty variant: the page loop breaks after its first page, whatever the token
LastPageAlways(token) == TRUE

\* token == nil: the page loop breaks
LastPage(token) == token = <<>>

\* faulty variant: the matching summaries of a page replace those of earlier pages
listStacksPageOverwrites(stacks, summaries, srch) ==
    SelectSeq(summaries, LAMBDA s : Contains(s.StackName, srch))

\* listStacks, one page: the summaries whose name contains the search term
\* are appended
listStacksPage(stacks, summaries, srch) ==
    stacks \o SelectSeq(summaries, LAMBDA s : Contains(s.StackName, srch))

\* searchProvisionedProducts, one page: the products are appended
searchProvisionedProductsPage(provisionedProducts, page) ==
    provisionedProducts \o page

\* describeStackResources: one request, whose response is returned as it
\* is; what the provider holds beyond that response is not asked for
describeStackResources(stackName) == StackResourcePages(stackName)[1]

\* faulty variant: no resource is taken for an indirection
IsIndirectionNever(resource) == FALSE

\* the test of getStackResources on a resource
IsIndirection(resource) == resource.ResourceType = ResourceTypeCloudFormationProduct

\* faulty variant: a resource already in the result is not appended again
appendResourcesOnce(acc, more) ==
    acc \o SelectSeq(more, LAMBDA x : \A i \in 1..Len(acc) : acc[i] # x)

\* resources = append(resources, more...)
appendResources(acc, more) == acc \o more

ListStacksRequest ==
    /\ pc = "discover"
    /\ Top.phase = "listStacks"
    /\ \E resp \in Responses(AllStacks, Top.token) :
         /\ frames' = SetTop([Top EXCEPT
                !.token = resp.next,
                !.stacks = listStacksPage(Top.stacks, resp.items, Top.search),
                !.phase = IF LastPage(resp.next) THEN "listed" ELSE "listStacks"])
         /\ pageLog' = Append(pageLog, resp.items)
    /\ UNCHANGED <<args, account, remote, search, pc, resources, r, buf, out, lookupCalls, lastLookup, panicked>>

\* the range over the stacks has a next stack
MoreStacks ==
    /\ \/ Top.phase = "listed"
       \/ Top.phase = "resources" /\ Top.ri = Len(Top.res)
    /\ Top.si < Len(Top.stacks)

NoMoreStacks ==
    /\ \/ Top.phase = "listed"
       \/ Top.phase = "resources" /\ Top.ri = Len(Top.res)
    /\ Top.si = Len(Top.stacks)

DescribeStackResourcesRequest ==
    /\ pc = "discover"
    /\ MoreStacks
    /\ frames' = SetTop([Top EXCEPT
           !.si = @ + 1,
           !.res = describeStackResources(Top.stacks[Top.si + 1].StackName),
           !.ri = 0,
           !.phase = "resources"])
    /\ pageLog' = <<>>
    /\ UNCHANGED <<args, account, remote, search, pc, resources, r, buf, out, lookupCalls, lastLookup, panicked>>

\* a resource that is no indirection is appended
AppendResource ==
    /\ pc = "discover"
    /\ Top.phase = "resources"
    /\ Top.ri < Len(Top.res)
    /\ ~IsIndirection(Top.res[Top.ri + 1])
    /\ frames' = SetTop([Top EXCEPT
           !.acc = appendResources(@, <<Top.res[Top.ri + 1]>>),
           !.ri = @ + 1])
    /\ UNCHANGED <<args, account, remote, search, pc, resources, r, buf, out, lookupCalls,
                   lastLookup, pageLog, panicked>>

\* an indirection: searchProvisionedProducts is entered
EnterSearchProvisionedProducts ==
    /\ pc = "discover"
    /\ Top.phase = "resources"
    /\ Top.ri < Len(Top.res)
    /\ IsIndirection(Top.res[Top.ri + 1])
    /\ frames' = SetTop([Top EXCEPT
           !.phase = "searchProducts", !.token = <<>>, !.prods = <<>>, !.pi = 0])
    /\ UNCHANGED <<args, account, remote, search, pc, resources, r, buf, out, lookupCalls,
                   lastLookup, pageLog, panicked>>

SearchProvisionedProductsRequest ==
    /\ pc = "discover"
    /\ Top.phase = "searchProducts"
    /\ \E resp \in Responses(ProvisionedProducts(Top.res[Top.ri + 1].PhysicalResourceId),
                             Top.token) :
         /\ frames' = SetTop([Top EXCEPT
                !.token = resp.next,
                !.prods = searchProvisionedProductsPage(Top.prods, resp.items),
                !.phase = IF LastPage(resp.next) THEN "searched" ELSE "searchProducts"])
         /\ pageLog' = Append(pageLog, resp.items)
    /\ UNCHANGED <<args, account, remote, search, pc, resources, r, buf, out, lookupCalls, lastLookup, panicked>>

\* faulty variant: a provisioned product whose id is already being searched
\* for by a call on the stack is passed over
CallUnlessOnStack ==
    /\ pc = "discover"
    /\ Top.phase \in {"searched", "products"}
    /\ Top.pi < Len(Top.prods)
    /\ Len(frames) < MaxDepth
    /\ frames' = IF \E i \in 1..Len(frames) : frames[i].search = Top.prods[Top.pi + 1].Id
                 THEN SetTop([Top EXCEPT !.pi = @ + 1, !.phase = "products"])
                 ELSE Append(SetTop([Top EXCEPT !.pi = @ + 1, !.phase = "products"]),
                             NewFrame(Top.prods[Top.pi + 1].Id))
    /\ pageLog' = <<>>
    /\ UNCHANGED <<args, account, remote, search, pc, resources, r, buf, out, lookupCalls,
                   lastLookup, panicked>>

\* the recursive call for the next provisioned product
Call ==
    /\ pc = "discover"
    /\ Top.phase \in {"searched", "products"}
    /\ Top.pi < Len(Top.prods)
    /\ Len(frames) < MaxDepth
    /\ frames' = Append(SetTop([Top EXCEPT !.pi = @ + 1, !.phase = "products"]),
                        NewFrame(Top.prods[Top.pi + 1].Id))
    /\ pageLog' = <<>>
    /\ UNCHANGED <<args, account, remote, search, pc, resources, r, buf, out, lookupCalls, lastLookup, panicked>>

\* the range over the products ends: on to the next resource
ProductsDone ==
    /\ pc = "discover"
    /\ Top.phase \in {"searched", "products"}
    /\ Top.pi = Len(Top.prods)
    /\ frames' = SetTop([Top EXCEPT !.phase = "resources", !.ri = @ + 1])
    /\ pageLog' = <<>>
    /\ UNCHANGED <<args, account, remote, search, pc, resources, r, buf, out, lookupCalls, lastLookup, panicked>>

\* return resources: to the calling getStackResources, or to main
Return ==
    /\ pc = "discover"
    /\ NoMoreStacks
    /\ IF Len(frames) = 1
       THEN /\ frames' = <<>>
            /\ resources' = Top.acc
            /\ pc' = "loop"
       ELSE /\ frames' = [i \in 1..(Len(frames) - 1) |->
                            IF i = Len(frames) - 1
                            THEN [frames[i] EXCEPT !.acc = appendResources(@, Top.acc)]
                            ELSE frames[i]]
            /\ UNCHANGED <<resources, pc>>
    /\ pageLog' = <<>>
    /\ UNCHANGED <<args, account, remote, search, r, buf, out, lookupCalls, lastLookup, panicked>>

\* request.Send returns an error: panic
SendFails ==
    /\ pc = "discover"
    /\ \/ Top.phase \in {"listStacks", "searchProducts"}
       \/ MoreStacks
    /\ pc' = "aborted"
    /\ panicked' = "request"
    /\ UNCHANGED <<args, account, remote, search, frames, resources, r, buf, out, lookupCalls, lastLookup, pageLog>>

\* ------------------------------------------------------------------- main

\* the batch of the periodic flush: r % 1000 == 0
BatchSize == 1000

\* faulty variant: a not-found error is logged and the resource left out of the report
OutcomeDropsNotFound(resource, srch, res) ==
    IF res.ok
    THEN [panic |-> FALSE,
          rows |-> <<Add(resource.ResourceType, resource.PhysicalResourceId,
                         resource.StackName, srch, res.tags)>>]
    ELSE IF IsNotFound(res.err)
    THEN [panic |-> FALSE, rows |-> <<>>]
    ELSE IF IsTagsNotSupported(res.err)
    THEN [panic |-> FALSE,
          rows |-> <<NotSupported(resource.ResourceType, resource.PhysicalResourceId,
                                  resource.StackName, srch)>>]
    ELSE [panic |-> TRUE, rows |-> <<>>]

\* faulty variant: only a TagsNotSupportedError is let through: a not-found error panics
OutcomeNotFoundFatal(resource, srch, res) ==
    IF res.ok
    THEN [panic |-> FALSE,
          rows |-> <<Add(resource.ResourceType, resource.PhysicalResourceId,
                         resource.StackName, srch, res.tags)>>]
    ELSE IF IsTagsNotSupported(res.err)
    THEN [panic |-> FALSE,
          rows |-> <<NotSupported(resource.ResourceType, resource.PhysicalResourceId,
                                  resource.StackName, srch)>>]
    ELSE [panic |-> TRUE, rows |-> <<>>]

\* what the loop body does with the result of a lookup: the rows it adds to
\* the report, or a panic
Outcome(resource, srch, res) ==
    IF res.ok
    THEN [panic |-> FALSE,
          rows |-> <<Add(resource.ResourceType, resource.PhysicalResourceId,
                         resource.StackName, srch, res.tags)>>]
    ELSE IF IsNotFound(res.err) \/ IsTagsNotSupported(res.err)
    THEN [panic |-> FALSE,
          rows |-> <<NotSupported(resource.ResourceType, resource.PhysicalResourceId,
                                  resource.StackName, srch)>>]
    ELSE [panic |-> TRUE, rows |-> <<>>]

\* the loop body on a "Custom::" resource: a not-supported row, then continue
LoopCustom ==
    /\ pc = "loop"
    /\ r < Len(resources)
    /\ customResource(resources[r + 1].ResourceType)
    /\ buf' = Append(buf, NotSupported(resources[r + 1].ResourceType,
                                       resources[r + 1].PhysicalResourceId,
                                       resources[r + 1].StackName, search))
    /\ r' = r + 1
    /\ UNCHANGED <<args, account, remote, search, pc, frames, resources, out, lookupCalls, lastLookup, pageLog, panicked>>

\* the loop body on a resource whose type has a lookup
LoopLookup ==
    /\ pc = "loop"
    /\ r < Len(resources)
    /\ ~customResource(resources[r + 1].ResourceType)
    /\ resources[r + 1].ResourceType \in lookups
    /\ lookupCalls' = lookupCalls \cup {r}
    /\ \E res \in lookup(resources[r + 1].ResourceType, remote) :
         LET o == Outcome(resources[r + 1], search, res) IN
         /\ lastLookup' = <<[at |-> r, res |-> res]>>
         /\ IF o.panic
            THEN /\ pc' = "aborted"
                 /\ panicked' = "fatal"
                 /\ UNCHANGED <<r, buf, out>>
            ELSE /\ IF r % BatchSize = 0
                    THEN /\ out' = out \o buf \o o.rows
                         /\ buf' = <<>>
                    ELSE /\ buf' = buf \o o.rows
                         /\ out' = out
                 /\ r' = r + 1
                 /\ UNCHANGED <<pc, panicked>>
    /\ UNCHANGED <<args, account, remote, search, frames, resources, pageLog>>

\* faulty variant: a resource whose type has no lookup is logged and skipped
LoopNotImplementedSkips ==
    /\ pc = "loop"
    /\ r < Len(resources)
    /\ ~customResource(resources[r + 1].ResourceType)
    /\ resources[r + 1].ResourceType \notin lookups
    /\ r' = r + 1
    /\ UNCHANGED <<args, account, remote, search, pc, frames, resources, buf, out, lookupCalls, lastLookup,
                   pageLog, panicked>>

\* the loop body on a resource whose type has no lookup: panic
LoopNotImplemented ==
    /\ pc = "loop"
    /\ r < Len(resources)
    /\ ~customResource(resources[r + 1].ResourceType)
    /\ resources[r + 1].ResourceType \notin lookups
    /\ pc' = "aborted"
    /\ panicked' = "notImplemented"
    /\ UNCHANGED <<args, account, remote, search, frames, resources, r, buf, out, lookupCalls, lastLookup, pageLog>>

\* after the loop: the last report.Write()
Finish ==
    /\ pc = "loop"
    /\ r = Len(resources)
    /\ out' = out \o buf
    /\ buf' = <<>>
    /\ pc' = "done"
    /\ UNCHANGED <<args, account, remote, search, frames, resources, r, lookupCalls, lastLookup, pageLog, panicked>>

\* the command lines: one search string, or a first one followed by another
ArgLists ==
    {<<s>> : s \in Searches}
    \cup {<<s, t>> : s \in {<<"c">>, <<"z">>}, t \in Searches}

\* faulty variant: the last argument is the search string
SearchArgLast(argv) == argv[Len(argv)]

\* search := &os.Args[1]
SearchArg(argv) == argv[1]

\* the command lines tried on the account with the two more stacks
CyclicArgLists == {<< <<"k">> >>, << <<"w">> >>, << <<"y">> >>, << <<"c">> >>}

\* after NewReporter: the header is in the writer, discovery is about to start
Init ==
    /\ account \in {"plain", "cyclic"}
    /\ args \in IF account = "cyclic" THEN CyclicArgLists ELSE ArgLists
    /\ remote = RemoteAnswers
    /\ search = SearchArg(args)
    /\ pc = "discover"
    /\ frames = <<NewFrame(search)>>
    /\ resources = <<>>
    /\ r = 0
    /\ buf = <<header>>
    /\ out = <<>>
    /\ lookupCalls = {}
    /\ lastLookup = <<>>
    /\ pageLog = <<>>
    /\ panicked = ""

Next ==
    \/ ListStacksRequest
    \/ DescribeStackResourcesRequest
    \/ AppendResource
    \/ EnterSearchProvisionedProducts
    \/ SearchProvisionedProductsRequest
    \/ Call
    \/ ProductsDone
    \/ Return
    \/ SendFails
    \/ LoopCustom
    \/ LoopLookup
    \/ LoopNotImplemented
    \/ Finish

Spec == Init /\ [][Next]_vars

\* A run makes its steps one after the other and never waits for another
\* process: a step that can be taken is taken.
FairSpec == Spec /\ WF_vars(Next)

\* ------------------------------------------------- one lookup, any answer

\* The main loop over one discovered resource of a type wrap serves, for
\* every result record of bounded size the remote operation can answer with.
MaxFields == 2
MaxTags == 2

\* the keys and values of the tags in these records
TagKeys == {"Name", "rlg:product"}
TagValues == {"v", "w"}

\* the names of the fields of a result record
FieldNames == {"Tags", "TagSet", "TagList", "NextToken"}

\* map[string]string values: every map from some of the keys
TagMaps == UNION {[ks -> TagValues] : ks \in SUBSET TagKeys}

\* slices of records with Key and Value, up to MaxTags long
TagLists == UNION {[1..n -> {Tag(k, v) : k \in TagKeys, v \in TagValues}] : n \in 0..MaxTags}

\* the values a field of a name can hold; the first field wrap can stop at
\* takes every value, the other fields one value of each kind
FieldsNamed(name, first) ==
    IF ~containsString(TagsFieldNames, name) THEN {OtherField(name)}
    ELSE IF first
    THEN {MapField(name, t) : t \in TagMaps}
         \cup {SliceField(name, l) : l \in TagLists}
         \cup {OtherField(name)}
    ELSE {MapField(name, [k \in {"Name"} |-> "m"]),
          SliceField(name, <<Tag("rlg:product", "s")>>),
          SliceField(name, <<>>),
          OtherField(name)}

\* the records whose fields are declared under the names ns, in that order
RECURSIVE RecordsNamed(_, _)
RecordsNamed(ns, first) ==
    IF ns = <<>> THEN {<<>>}
    ELSE {<<f>> \o rest :
            f \in FieldsNamed(Head(ns), first),
            rest \in RecordsNamed(Tail(ns),
                        first /\ ~containsString(TagsFieldNames, Head(ns)))}

Records ==
    UNION {RecordsNamed(ns, TRUE) :
             ns \in {q \in UNION {[1..n -> FieldNames] : n \in 1..MaxFields} :
                       \A i, j \in 1..Len(q) : i # j => q[i] # q[j]}}

\* main at its loop, over one bucket of the stack "ab"
InitWrap ==
    /\ args = << <<"a">> >>
    /\ account = "plain"
    /\ remote \in {{rec} : rec \in Records}
    /\ search = SearchArg(args)
    /\ pc = "loop"
    /\ frames = <<>>
    /\ resources = <<StackResource(<<"AWS", "S3", "Bucket">>, "b1", <<"a", "b">>)>>
    /\ r = 0
    /\ buf = <<header>>
    /\ out = <<>>
    /\ lookupCalls = {}
    /\ lastLookup = <<>>
    /\ pageLog = <<>>
    /\ panicked = ""

NextWrap ==
    \/ LoopLookup
    \/ Finish

WrapSpec == InitWrap /\ [][NextWrap]_vars

\* ----------------------------------------------------------------- claims

\* the rows of the resources written to the report so far, flushed or not
\* (the first row written is the header)
Rows == Tail(out \o buf)

\* the rows of resources still held by the writer
Unflushed == IF out = <<>> THEN Tail(buf) ELSE buf

IsCustomType(t) == Len(t) >= 2 /\ t[1] = "Custom"

IsNotSupportedRow(row) ==
    /\ row[4] = <<>>
    /\ row[5] = <<>>
    /\ row[7] = <<"N/A">>
    /\ row[8] = <<"N/A">>

RECURSIVE FlatMap(_, _)
FlatMap(F(_), s) == IF s = <<>> THEN <<>> ELSE F(Head(s)) \o FlatMap(F, Tail(s))

RECURSIVE SumMap(_, _)
SumMap(F(_), s) == IF s = <<>> THEN 0 ELSE F(Head(s)) + SumMap(F, Tail(s))

MatchingStacks(srch) == SelectSeq(AllStacks, LAMBDA s : Contains(s.StackName, srch))

\* the flattened sequence in stack order, then resource order, each
\* indirection replaced depth-first by what its provisioned products yield
RECURSIVE DepthFirst(_, _)
DepthFirst(srch, fuel) ==
    IF fuel = 0 THEN <<>>
    ELSE FlatMap(LAMBDA stack :
           FlatMap(LAMBDA res :
                     IF res.ResourceType = <<"AWS", "ServiceCatalog", "CloudFormationProduct">>
                     THEN FlatMap(LAMBDA prod : DepthFirst(prod.Id, fuel - 1),
                                  ProvisionedProducts(res.PhysicalResourceId))
                     ELSE <<res>>,
                   StackResourcePages(stack.StackName)[1]),
           MatchingStacks(srch))

\* the number of paths by which resource x is reached from the search term
RECURSIVE Paths(_, _, _)
Paths(srch, x, fuel) ==
    IF fuel = 0 THEN 0
    ELSE SumMap(LAMBDA stack :
           SumMap(LAMBDA res :
                    IF res.ResourceType = <<"AWS", "ServiceCatalog", "CloudFormationProduct">>
                    THEN SumMap(LAMBDA prod : Paths(prod.Id, x, fuel - 1),
                                ProvisionedProducts(res.PhysicalResourceId))
                    ELSE IF res = x THEN 1 ELSE 0,
                  StackResourcePages(stack.StackName)[1]),
           MatchingStacks(srch))

\* C1 as stated: when the run has ended, the report holds exactly one row
\* per resource that discovery returned.
C1_OneRowPerDiscovered ==
    pc \in {"done", "aborted"} => Len(Rows) = Len(resources)

\* C1 amended: the loop writes exactly one row, in discovery order, for each
\* resource it has passed; a run that ends normally has passed them all, a
\* run that panicked holds no row for the resource it panicked at or for a
\* later one.
C1_OneRowPerProcessed ==
    pc \in {"loop", "done", "aborted"} =>
        /\ Len(Rows) = r
        /\ \A i \in 1..r : Rows[i][3] = resources[i].PhysicalResourceId
        /\ pc = "done" => r = Len(resources)

C1_Witness ==
    /\ pc = "done"
    /\ Len(resources) >= 5
    /\ Len(Rows) = Len(resources)

\* the loop has reached a resource whose type is not "Custom::..." and is no
\* key of the registry
ReachedAbsent ==
    /\ pc = "loop"
    /\ r < Len(resources)
    /\ ~IsCustomType(resources[r + 1].ResourceType)
    /\ resources[r + 1].ResourceType \notin lookups

\* C2: when the loop reaches a resource whose type is absent from the
\* registry (and not "Custom::"), its step is the panic: nothing is written
\* for that resource, what was flushed stays as it is, and no step follows
\* a panic, so no later resource gets a row.
C2_AbsentTypeAborts ==
    [][ /\ pc # "aborted"
        /\ ReachedAbsent =>
             /\ pc' = "aborted"
             /\ panicked' = "notImplemented"
             /\ r' = r
             /\ out' = out
             /\ buf' = buf ]_vars

C2_Witness ==
    /\ pc = "aborted"
    /\ panicked = "notImplemented"
    /\ r > 0
    /\ Len(out) >= 2
    /\ r + 1 < Len(resources)

\* C3 as stated: at a panic on a fatal lookup error, no row of a resource is
\* still held unflushed by the writer.
C3_FatalAfterFlush ==
    (pc = "aborted" /\ panicked = "fatal") => Unflushed = <<>>

\* the last lookup failed with a not-found code or a TagsNotSupportedError
LastLookupSkippable ==
    /\ lastLookup # <<>>
    /\ ~lastLookup[1].res.ok
    /\ \/ /\ lastLookup[1].res.err.kind = "aws"
          /\ lastLookup[1].res.err.code \in
               {"ResourceNotFoundException", "EntityNotFoundException"}
       \/ lastLookup[1].res.err.kind = "unsupported"

\* C4: after a lookup that failed with a not-found code or with a
\* TagsNotSupportedError, the loop has gone on past that resource without a
\* panic for it, and the row of the resource is a not-supported row:
\* coverage "N/A"/"N/A" and empty tag lists.
C4_SkippableIsRecorded ==
    LastLookupSkippable =>
        /\ r > lastLookup[1].at
        /\ Len(Rows) > lastLookup[1].at
        /\ Rows[lastLookup[1].at + 1][3] = resources[lastLookup[1].at + 1].PhysicalResourceId
        /\ IsNotSupportedRow(Rows[lastLookup[1].at + 1])

C4_Witness ==
    /\ LastLookupSkippable
    /\ lastLookup[1].res.err.code = "EntityNotFoundException"
    /\ lastLookup[1].at >= 1
    /\ pc = "loop"
    /\ r = lastLookup[1].at + 1

\* C5: for a resource whose type starts with "Custom::" the lookup function
\* is never called, its row is a not-supported row, and no panic happens at
\* it.
C5_CustomIsUnsupported ==
    pc \in {"loop", "done", "aborted"} =>
        /\ \A i \in 1..Len(resources) :
             IsCustomType(resources[i].ResourceType) =>
                 /\ (i - 1) \notin lookupCalls
                 /\ i <= r => IsNotSupportedRow(Rows[i])
        /\ (pc = "aborted" /\ r < Len(resources)) =>
               ~IsCustomType(resources[r + 1].ResourceType)

C5_Witness ==
    /\ pc = "loop"
    /\ \E i \in 1..r :
         /\ IsCustomType(resources[i].ResourceType)
         /\ IsNotSupportedRow(Rows[i])
         /\ r > i

\* C6: no resource of the indirection type is in the result of
\* getStackResources, in progress or returned; and the stack "ac", whose
\* only resource is an indirection to the stack of three plain resources,
\* yields exactly those three.
C6_IndirectionExpanded ==
    /\ \A f \in 1..Len(frames) : \A i \in 1..Len(frames[f].acc) :
         frames[f].acc[i].ResourceType # <<"AWS", "ServiceCatalog", "CloudFormationProduct">>
    /\ \A i \in 1..Len(resources) :
         resources[i].ResourceType # <<"AWS", "ServiceCatalog", "CloudFormationProduct">>
    /\ (pc = "loop" /\ search = <<"c">>) =>
         resources = StackResourcePages(<<"p", "1">>)[1]

C6_Witness ==
    /\ pc = "loop"
    /\ search = <<"c">>
    /\ Len(resources) = 3

\* C7: the sequence getStackResources returns to main is the depth-first
\* flattening, in stack order then resource order, and a resource is in it
\* once per path that reaches it.
C7_OrderAndMultiplicity ==
    (pc = "loop" /\ r = 0) =>
        /\ resources = DepthFirst(search, MaxDepth)
        /\ \A i \in 1..Len(resources) :
             Count(resources, resources[i]) = Paths(search, resources[i], MaxDepth)

C7_Witness ==
    /\ pc = "loop"
    /\ r = 0
    /\ search = <<"a">>
    /\ Len(resources) = 8
    /\ resources[1].PhysicalResourceId = "f1"
    /\ resources[2].PhysicalResourceId = "m1"
    /\ resources[5].PhysicalResourceId = "b1"
    /\ Count(resources, resources[3]) = 2

\* C8: when listStacks or searchProvisionedProducts returns, its result is
\* the one the same loop gives when the items of all the pages it received
\* come in one page.
C8_PageSplitInvariant ==
    pc = "discover" =>
        /\ Top.phase = "listed" =>
             Top.stacks = listStacksPage(<<>>, Flatten(pageLog), Top.search)
        /\ Top.phase = "searched" =>
             Top.prods = searchProvisionedProductsPage(<<>>, Flatten(pageLog))

C8_Witness ==
    /\ pc = "discover"
    /\ Top.phase = "listed"
    /\ Len(pageLog) = 3
    /\ Len(pageLog[1]) = 2
    /\ Len(pageLog[2]) = 2
    /\ Len(pageLog[3]) = 1
    /\ Len(Top.stacks) = 5

\* C9 as stated: the resources getStackResources ranges over for a stack are
\* those of every page the provider holds for that stack.
C9_DescribeAllPages ==
    (pc = "discover" /\ Top.phase = "resources") =>
        Top.res = Flatten(StackResourcePages(Top.stacks[Top.si].StackName))

\* a page loop of the innermost call is in progress
InPageLoop == pc = "discover" /\ Top.phase \in {"listStacks", "searchProducts"}

\* C10: a page loop sends a request only before its first page or while the
\* last token was present; it has returned right after the page whose token
\* was absent, with the items of all the pages; and every page loop ends.
C10_Safe ==
    pc = "discover" =>
        /\ InPageLoop => (pageLog = <<>> \/ Top.token # <<>>)
        /\ Top.phase \in {"listed", "searched"} =>
             /\ Top.token = <<>>
             /\ pageLog # <<>>
        /\ Top.phase = "listed" =>
             /\ Flatten(pageLog) = AllStacks
             /\ Top.stacks = MatchingStacks(Top.search)
        /\ Top.phase = "searched" =>
             /\ Flatten(pageLog) = ProvisionedProducts(Top.res[Top.ri + 1].PhysicalResourceId)
             /\ Top.prods = Flatten(pageLog)

C10_PageLoopsTerminate ==
    /\ []C10_Safe
    /\ InPageLoop ~> ~InPageLoop

C10_Witness ==
    /\ pc = "discover"
    /\ Top.phase = "searched"
    /\ Len(pageLog) = 2
    /\ Len(Top.prods) = 2

\* the one record the remote operation answers with, when it has one answer
TheAnswer == CHOOSE rec \in remote : TRUE

\* a record whose tags fields all carry their tags as a list, no key twice
ListShaped(rec) ==
    /\ \E i \in 1..Len(rec) : containsString(TagsFieldNames, rec[i].name)
    /\ \A i \in 1..Len(rec) :
         containsString(TagsFieldNames, rec[i].name) =>
           /\ rec[i].kind = "slice"
           /\ \A j, k \in 1..Len(rec[i].items) :
                j # k => rec[i].items[j].Key # rec[i].items[k].Key

\* the same record with each list of tags given as the map of its pairs
AsMaps(rec) ==
    [i \in 1..Len(rec) |->
        IF rec[i].kind = "slice"
        THEN MapField(rec[i].name,
                 [k \in {rec[i].items[j].Key : j \in 1..Len(rec[i].items)} |->
                     (CHOOSE t \in {rec[i].items[j] : j \in 1..Len(rec[i].items)} :
                         t.Key = k).Value])
        ELSE rec[i]]

\* C11: extraction does not depend on the shape: the outcome of a lookup
\* answered with a list of tags (the empty list included) is an outcome of
\* the lookup answered with the same tags as a map: the same TagSet, the
\* same success or error.
C11_ShapeInvariant ==
    (/\ Cardinality(remote) = 1
     /\ ListShaped(TheAnswer)
     /\ lastLookup # <<>>)
    => lastLookup[1].res \in wrap(resources[lastLookup[1].at + 1].ResourceType,
                                  {AsMaps(TheAnswer)})

\* the resources the program is given for the stacks whose name contains
\* srch, in listing order, but for the indirections, which are expanded
ResourcesMatching(srch) ==
    FlatMap(LAMBDA st : SelectSeq(describeStackResources(st.StackName),
                                  LAMBDA x : ~IsIndirection(x)),
            MatchingStacks(srch))

\* C12 as stated: every argument is a search term of its own: after a run
\* that ends normally, each resource of a stack matching any argument is in
\* the report, with that argument as its search term.
C12_EachArgumentSearched ==
    pc = "done" =>
      \A i \in 1..Len(args) :
        \A j \in 1..Len(ResourcesMatching(args[i])) :
          \E k \in 1..Len(Rows) :
            /\ Rows[k][1] = args[i]
            /\ Rows[k][3] = ResourcesMatching(args[i])[j].PhysicalResourceId

\* C12, amended: the first argument alone is the search term: the discovery
\* is the one of the first argument, every row carries the first argument
\* as its search term, and the other arguments change nothing.
C12_FirstArgumentOnly ==
    /\ search = args[1]
    /\ (pc = "loop" /\ r = 0) => resources = DepthFirst(args[1], MaxDepth)
    /\ \A k \in 1..Len(Rows) : Rows[k][1] = args[1]

\* a run with two arguments has ended normally with rows in the report,
\* while a stack matches the second argument
C12_Witness ==
    /\ Len(args) = 2
    /\ args[2] # args[1]
    /\ MatchingStacks(args[2]) # <<>>
    /\ pc = "done"
    /\ Rows # <<>>

\* C13: the report is flushed each time the loop index reaches a batch
\* boundary, whatever the outcome of the resource at that index: when the
\* loop has just passed the resource at an index that is a multiple of
\* BatchSize, nothing is left in the writer.
C13_FlushAtEveryBoundary ==
    (pc = "loop" /\ r >= 1 /\ (r - 1) % BatchSize = 0) => buf = <<>>

\* where a key stands in the current taxonomy
TaxonomyIndex(key) == CHOOSE i \in 1..Len(modern) : modern[i] = key

\* keys of the current taxonomy, each once, in the order of the taxonomy
InTaxonomyOrder(keys) ==
    /\ \A i \in 1..Len(keys) : \E j \in 1..Len(modern) : modern[j] = keys[i]
    /\ \A i, j \in 1..Len(keys) :
         i < j => TaxonomyIndex(keys[i]) < TaxonomyIndex(keys[j])

\* C14: whatever TagSet a lookup gives, the present and the missing keys of
\* the row written for it are disjoint, together they are exactly the
\* current taxonomy, each list is in taxonomy order, and the present keys
\* are the keys of the taxonomy the TagSet has.
C14_PresentMissingPartition ==
    (lastLookup # <<>> /\ lastLookup[1].res.ok) =>
      LET has == Rows[1][4]
          miss == Rows[1][5]
          Set(q) == {q[i] : i \in 1..Len(q)}
      IN  /\ Set(has) \cap Set(miss) = {}
          /\ Set(has) \cup Set(miss) = Set(modern)
          /\ InTaxonomyOrder(has)
          /\ InTaxonomyOrder(miss)
          /\ Set(has) = Set(modern) \cap DOMAIN lastLookup[1].res.tags

\* a row is written for a TagSet with two keys of the taxonomy, which are
\* not its first two: both lists are non-empty and order matters
C14_Witness ==
    /\ lastLookup # <<>>
    /\ lastLookup[1].res.ok
    /\ Len(Rows) = 1
    /\ Rows[1][4] = <<"Name", "rlg:product">>
    /\ Len(Rows[1][5]) = Len(modern) - 2

\* what one tags field gives when it is the field interpreted: a map as it
\* is, a non-empty list folded into a map, anything else an error
Interpret(field) ==
    IF field.kind = "map" THEN Success(field.tags)
    ELSE IF field.kind = "slice" /\ field.items # <<>>
    THEN Success([k \in {field.items[i].Key : i \in 1..Len(field.items)} |->
                    field.items[CHOOSE i \in 1..Len(field.items) :
                        /\ field.items[i].Key = k
                        /\ \A j \in 1..Len(field.items) :
                             field.items[j].Key = k => j <= i].Value])
    ELSE Failure(CastError)

\* the positions of the fields of a record that carry an alias name
AliasFields(rec) == {i \in 1..Len(rec) : containsString(TagsFieldNames, rec[i].name)}

\* the alias field earliest in the order Tags, TagSet, TagList
FirstByPriority(rec) ==
    LET p == CHOOSE p \in 1..Len(TagsFieldNames) :
                 /\ \E i \in AliasFields(rec) : rec[i].name = TagsFieldNames[p]
                 /\ \A q \in 1..(p - 1) :
                      \A i \in AliasFields(rec) : rec[i].name # TagsFieldNames[q]
    IN  rec[CHOOSE i \in AliasFields(rec) : rec[i].name = TagsFieldNames[p]]

\* the alias field the record declares first
FirstDeclared(rec) ==
    rec[CHOOSE i \in AliasFields(rec) : \A j \in AliasFields(rec) : i <= j]

\* the outcomes of a lookup that are errors of the remote operation itself
RequestErrors(resourceType) == wrap(resourceType, {})

\* a lookup of the one resource has been answered with the one record
Answered == Cardinality(remote) = 1 /\ lastLookup # <<>>

\* C15 as stated: the field interpreted is the alias field earliest in the
\* order Tags, TagSet, TagList, wherever the record declares it.
C15_PriorityOrder ==
    (Answered /\ AliasFields(TheAnswer) # {}) =>
        lastLookup[1].res \in
            RequestErrors(resources[lastLookup[1].at + 1].ResourceType)
            \cup {Interpret(FirstByPriority(TheAnswer))}

\* C15, amended: the field interpreted is the alias field the record
\* declares first, whichever of the three names it carries; a record with
\* no alias field gives the error "tags field not found".
C15_DeclarationOrder ==
    Answered =>
        lastLookup[1].res \in
            RequestErrors(resources[lastLookup[1].at + 1].ResourceType)
            \cup {IF AliasFields(TheAnswer) = {}
                  THEN Failure(NoTagsFieldError)
                  ELSE Interpret(FirstDeclared(TheAnswer))}

\* a lookup answered with a record that declares TagList before Tags, the
\* two carrying different tags, has given the tags of TagList
C15_Witness ==
    /\ Answered
    /\ Cardinality(AliasFields(TheAnswer)) = 2
    /\ FirstDeclared(TheAnswer).name = "TagList"
    /\ FirstByPriority(TheAnswer).name = "Tags"
    /\ Interpret(FirstDeclared(TheAnswer)).ok
    /\ Interpret(FirstByPriority(TheAnswer)).ok
    /\ Interpret(FirstDeclared(TheAnswer)) # Interpret(FirstByPriority(TheAnswer))
    /\ lastLookup[1].res = Interpret(FirstDeclared(TheAnswer))

\* the search terms getStackResources(srch) calls itself with, in an account
\* of the listing stacks: the ids of the provisioned products of the
\* products in the stacks matching srch
Expands(stacks, srch) ==
    UNION {UNION {{ProvisionedProducts(x.PhysicalResourceId)[i].Id :
                     i \in 1..Len(ProvisionedProducts(x.PhysicalResourceId))} :
                  x \in {describeStackResources(st.StackName)[j] :
                           j \in {j \in 1..Len(describeStackResources(st.StackName)) :
                                   IsIndirection(describeStackResources(st.StackName)[j])}}} :
           st \in {stacks[n] : n \in {n \in 1..Len(stacks) :
                                        Contains(stacks[n].StackName, srch)}}}

\* the search terms reached from those of S in any number of calls
RECURSIVE Closure(_, _)
Closure(stacks, S) ==
    LET N == S \cup UNION {Expands(stacks, s) : s \in S}
    IN  IF N = S THEN S ELSE Closure(stacks, N)

\* the search terms from which the chain of indirections is cyclic: it
\* reaches a search term whose own expansion leads back to it
CyclicTerms(stacks) ==
    {srch \in Searches \cup {a[1] : a \in CyclicArgLists} :
        \E t \in Closure(stacks, {srch}) : t \in Closure(stacks, Expands(stacks, t))}

CyclicInPlain == CyclicTerms(PlainStacks)
CyclicInCyclic == CyclicTerms(PlainStacks \o CyclicStacks)

\* the run searches for a term whose chain of indirections is cyclic
Cyclic == search \in IF account = "cyclic" THEN CyclicInCyclic ELSE CyclicInPlain

\* a recursive call is due while MaxDepth calls are on the stack: the
\* recursion goes on beyond the depth explored
CallDueAtBound ==
    /\ pc = "discover"
    /\ Len(frames) = MaxDepth
    /\ Top.phase \in {"searched", "products"}
    /\ Top.pi < Len(Top.prods)

\* with a cyclic chain main never gets to its loop: getStackResources is
\* still running, or a request has failed
C16_Safe ==
    Cyclic => \/ pc = "discover"
              \/ pc = "aborted" /\ panicked = "request"

\* how discovery ends: with a cyclic chain, at MaxDepth calls with a
\* further call due, or at a failed request; with an acyclic chain, by
\* getStackResources returning, or at a failed request
C16_End ==
    IF Cyclic THEN pc = "aborted" \/ CallDueAtBound ELSE pc # "discover"

\* C16: nothing guards the expansion against a cycle: with a cyclic chain
\* of indirections getStackResources never returns and, unless a request
\* fails, the recursion gets as deep as the depth explored with a further
\* call due; with an acyclic chain getStackResources returns, or a request
\* fails.
C16_CyclicNeverReturns == []C16_Safe /\ <>C16_End

\* the recursion is MaxDepth deep with a further call due, the innermost
\* call searching for what the outermost call searches for
C16_Witness ==
    /\ CallDueAtBound
    /\ Cyclic
    /\ Top.search = frames[1].search
    /\ Top.prods[Top.pi + 1].Id = frames[2].search

====
